---- MODULE Spec2Model ----
(***************************************************************************)
(* Model of netconfeval/step_1_formal_spec_conflict_detection.py: main():  *)
(* the pre-flight check of the policy types, the creation of the result    *)
(* artifacts, and the sweep over iterations, batch sizes and chunks with   *)
(* one model invocation, one classification and one result row per chunk.  *)
(***************************************************************************)
EXTENDS Integers, Sequences, FiniteSets, TLC

VARIABLES
    pc,             \* position of main()
    policy_types,   \* SortedSet(args.policy_types)
    n_runs,         \* args.n_runs
    batch_sizes,    \* args.batch_size
    exit_status,    \* 0: running or returned, 1: exit(1)
    created,        \* artifacts already made: results dir, log file, dataset, result file
    it,             \* iteration index of the outer loop
    bidx,           \* position in args.batch_size (1-based)
    i,              \* chunk index of enumerate(chunk_samples) (0-based)
    flag_conflict,  \* flag_conflict
    samples,        \* samples: list of references to policy records
    heap,           \* the policy records behind the references
    chunk_samples,  \* chunk_samples: list of lists of references
    result_row,     \* result_row of the trial in progress
    expected_spec,  \* expected_spec of the trial in progress
    human_language, \* human_language of the trial in progress
    skip_compare,   \* skip_compare
    output,         \* output as returned by step_1.process
    result,         \* result
    new_result,     \* new_result
    w,              \* the csv.DictWriter: "none" until created
    fileBuf,        \* what was written to f and not flushed yet
    fileDisk,       \* what of f reached the file
    log,            \* records the WARNING-level file handler received
    trial,          \* what happened in the trial in progress (history)
    hist,           \* per written row: what happened in its trial (history)
    invocations     \* number of calls of step_1.process so far (history)

vars == <<pc, policy_types, n_runs, batch_sizes, exit_status, created, it, bidx, i,
          flag_conflict, samples, heap, chunk_samples, result_row, expected_spec,
          human_language, skip_compare, output, result, new_result, w, fileBuf,
          fileDisk, log, trial, hist, invocations>>

----------------------------------------------------------------------------
(* Bounds of the model *)

MaxRuns == 2
MaxBatch == 2
MaxBatches == 2
MaxTrials == 4
MaxKeyLen == 2
MaxEntries == 2

----------------------------------------------------------------------------
(* Small helpers *)

Min2(a, b) == IF a <= b THEN a ELSE b

Max2(a, b) == IF a >= b THEN a ELSE b

CeilDiv(a, b) == (a + b - 1) \div b

RECURSIVE SeqMax(_)
SeqMax(s) == IF Len(s) = 1 THEN s[1] ELSE Max2(s[1], SeqMax(Tail(s)))

PolicyTypeNames == {"reachability", "waypoint", "loadbalancing"}

----------------------------------------------------------------------------
(* Pre-flight: the policy type check *)

PolicyCheckFailsNoLoadRule(types) == "reachability" \notin types

PolicyCheckFails(types) ==
    \/ "reachability" \notin types
    \/ ("loadbalancing" \in types /\ "waypoint" \notin types)

----------------------------------------------------------------------------
(* Sampling and chunking *)

n_policy_types == Cardinality(policy_types)

max_n_requirements == SeqMax(batch_sizes) * n_policy_types

\* pick_sample: max_n_requirements fresh record references
pick_sample(size) == [k \in 1..size |-> k]

\* chunk_list(lst, n): consecutive slices of length n, the last one shorter
chunk_list(lst, n) ==
    [k \in 1..CeilDiv(Len(lst), n) |->
        SubSeq(lst, (k - 1) * n + 1, Min2(k * n, Len(lst)))]

\* the records a chunk refers to, in order
Content(chunk, h) == [k \in 1..Len(chunk) |-> h[chunk[k]]]

\* a copy of the list that shares the records
DuplicateShallow(chunks, h) ==
    IF Len(chunks) = 1
    THEN [chunks |-> Append(chunks, chunks[1]), heap |-> h]
    ELSE [chunks |-> chunks, heap |-> h]

\* lines 99-101: a single chunk is followed by its deep copy (fresh records
\* with the same content)
Duplicate(chunks, h) ==
    IF Len(chunks) = 1
    THEN LET n == Len(chunks[1])
             base == Len(samples)
             chunk_new == [k \in 1..n |-> base + k]
         IN [chunks |-> Append(chunks, chunk_new),
             heap |-> [r \in DOMAIN h |->
                          IF r \in (base + 1)..(base + n)
                          THEN h[chunks[1][r - base]] ELSE h[r]]]
    ELSE [chunks |-> chunks, heap |-> h]

\* insert_conflict(sample): rewrites a record of the chunk in place so that it
\* contradicts another requirement; the record counts its rewrites
insert_conflict(chunk, h) ==
    [h EXCEPT ![chunk[1]] = @ + 1]

\* transform_sample_to_expected(sample)
transform_sample_to_expected(chunk, h) == Content(chunk, h)

\* convert_to_human_language(sample): one sentence per record
convert_to_human_language(chunk, h) == Content(chunk, h)

ToggleStuck(flag) == flag

\* line 135
Toggle(flag) == ~flag

----------------------------------------------------------------------------
(* Values exchanged with the model invocation *)

\* a waypoint / loadbalancing entry of a result: absent, or a mapping given as
\* its (key, value) items in iteration order; a key is a sequence of characters
Absent == [present |-> FALSE, items |-> <<>>]

Mapping(items) == [present |-> TRUE, items |-> items]

\* the first element of output["args"]: a mapping ("map"), a number ("int") or
\* a string ("str"); q stands for the entries the normalization does not touch
Payload(t, wp, lb, q) == [t |-> t, wp |-> wp, lb |-> lb, q |-> q]

EmptyDict == Payload("map", Absent, Absent, "empty")

EmptyString == Payload("str", Absent, Absent, "empty")

\* a JSON value returned as output: None, a string or a dictionary, with its
\* str() text; args is output["args"] when the dictionary has that key
JNull == [t |-> "null", s |-> "None", hasArgs |-> FALSE, args |-> <<>>]

JStr(s) == [t |-> "str", s |-> s, hasArgs |-> FALSE, args |-> <<>>]

JDict == [t |-> "dict", s |-> "{}", hasArgs |-> FALSE, args |-> <<>>]

JArgs(args) == [t |-> "dict", s |-> "{'args': [...]}", hasArgs |-> TRUE, args |-> args]

\* what step_1.process does: raise a JSONDecodeError, raise another Exception,
\* or return (status, output)
Raise(kind, msg) == [kind |-> kind, msg |-> msg, status |-> FALSE, output |-> JStr("")]

Return(status, out) == [kind |-> "return", msg |-> "", status |-> status, output |-> out]

KeyNA == <<"N", " ", "A">>

GoodResult == Payload("map", Mapping(<< <<KeyNA, 1>> >>), Absent, "exact")

Outcomes ==
    { Raise("raise_json", "Expecting value: line 1 column 1 (char 0)"),
      Raise("raise", "connection reset"),
      Raise("raise", ""),
      Return(FALSE, JStr("conflict found")),
      Return(TRUE, JNull),
      Return(TRUE, JStr("")),
      Return(TRUE, JDict),
      Return(TRUE, JArgs(<<Payload("int", Absent, Absent, "empty")>>)),
      Return(TRUE, JArgs(<<GoodResult>>)) }

----------------------------------------------------------------------------
(* Lines 181-210: the invocation and the classification of its outcome *)

\* lines 107-127; the token and cost counters stay 0 as with the HF and Ollama
\* models (lines 190-191), the OpenAI callback of lines 185-189 is left out
InitialRow(b, iter, chunk, flag) ==
    [model_error |-> "", format_error |-> "", batch_size |-> b,
     n_policy_types |-> n_policy_types, max_n_requirements |-> max_n_requirements,
     iteration |-> iter, chunk |-> chunk, time |-> 0, total |-> 0, success |-> 0,
     fail |-> 0, wrong |-> 0, accuracy |-> 0, prompt_tokens |-> 0,
     completion_tokens |-> 0, total_cost |-> 0, diff |-> "",
     conflict_exist |-> flag, conflict_detect |-> FALSE]

Classified(row, res, out, skip) == [row |-> row, result |-> res, output |-> out, skip |-> skip]

\* what the statements after the call do with a returned (status, output)
ClassifyReturn(o, row) ==
    IF ~o.status
    THEN Classified([row EXCEPT !.conflict_detect = TRUE, !.diff = o.output.s],
                    EmptyDict, o.output, TRUE)
    ELSE IF o.output.t = "null"
    THEN \* "args" in None raises TypeError, caught by except Exception
         Classified([row EXCEPT !.model_error = "argument of type 'NoneType' is not iterable"],
                    EmptyDict, o.output, TRUE)
    ELSE IF o.output.hasArgs
    THEN IF Len(o.output.args) = 0
         THEN \* output["args"][0] raises IndexError, caught by except Exception
              Classified([row EXCEPT !.model_error = "list index out of range"],
                         EmptyDict, o.output, TRUE)
         ELSE Classified(row, o.output.args[1], o.output, FALSE)
    ELSE Classified([row EXCEPT !.format_error = o.output.s], EmptyDict, o.output, TRUE)

\* a handler that records no message
ClassifySilent(o, row) ==
    IF o.kind = "return" THEN ClassifyReturn(o, row)
    ELSE Classified(row, EmptyDict, JStr(""), TRUE)

Classify(o, row) ==
    IF o.kind = "raise_json"
    THEN Classified([row EXCEPT !.format_error = o.msg], EmptyString, JStr(""), TRUE)
    ELSE IF o.kind = "raise"
    THEN Classified([row EXCEPT !.model_error = o.msg], EmptyDict, JStr(""), TRUE)
    ELSE ClassifyReturn(o, row)

\* line 192: logging.warning("Output: ", output) has no placeholder for its
\* argument; formatting fails inside the handler and nothing is logged, except
\* for a non-empty dictionary, which logging takes as keyword arguments and
\* logs the bare label
OutputLogRecords(o) ==
    IF o.kind = "return" /\ o.output.t = "dict" /\ o.output.hasArgs
    THEN << [kind |-> "Output", has |-> {}] >>
    ELSE << >>

----------------------------------------------------------------------------
(* Lines 218-226: key normalization *)

\* k.replace(" ", "")
StripSpaces(k) == SelectSeq(k, LAMBDA c : c # " ")

\* d[k] = v on a dictionary kept as its items in insertion order
RECURSIVE DictPut(_, _, _)
DictPut(items, k, v) ==
    IF items = <<>> THEN << <<k, v>> >>
    ELSE IF items[1][1] = k THEN << <<k, v>> >> \o Tail(items)
    ELSE << items[1] >> \o DictPut(Tail(items), k, v)

RECURSIVE StripItems(_, _)
StripItems(items, acc) ==
    IF items = <<>> THEN acc
    ELSE StripItems(Tail(items), DictPut(acc, StripSpaces(items[1][1]), items[1][2]))

NormalizeEntry(e) == IF e.present THEN Mapping(StripItems(e.items, <<>>)) ELSE e

\* "waypoint" in result raises TypeError when result is a number
NormalizeRaises(res) == res.t = "int"

\* new_result = result instead of a copy: the assignment of {} empties the
\* entry of result before its items are read
NormalizeAliased(res) ==
    LET emptied == [res EXCEPT !.wp = IF res.wp.present THEN Mapping(<<>>) ELSE res.wp,
                               !.lb = IF res.lb.present THEN Mapping(<<>>) ELSE res.lb]
    IN [orig |-> emptied, new |-> emptied]

\* result after the normalization, and new_result
Normalize(res) ==
    [orig |-> res,
     new |-> [res EXCEPT !.wp = NormalizeEntry(res.wp), !.lb = NormalizeEntry(res.lb)]]

\* compare_result(expected_spec, new_result, result_row) and DeepDiff
compare_result(expected, new, row) ==
    LET total == Len(expected)
        success == IF new.q = "exact" THEN total ELSE 0
    IN [row EXCEPT !.total = total, !.success = success, !.fail = total - success,
                   !.wrong = 0, !.accuracy = IF success = total /\ total > 0 THEN 1 ELSE 0,
                   !.diff = IF new.q = "exact" THEN "{}" ELSE "{'dictionary_item_removed': [...]}"]

----------------------------------------------------------------------------
(* Inputs *)

BatchLists == UNION { [1..k -> 1..MaxBatch] : k \in 1..MaxBatches }

\* number of chunks of one batch size, after the duplication of a single chunk
ChunksOf(bs, b) == Max2(2, CeilDiv(SeqMax(bs), b))

RECURSIVE SumChunks(_, _)
SumChunks(bs, k) == IF k = 0 THEN 0 ELSE ChunksOf(bs, bs[k]) + SumChunks(bs, k - 1)

TotalChunks(runs, bs) == runs * SumChunks(bs, Len(bs))

NoTrial == [it |-> 0, bidx |-> 0, i |-> 0, injected |-> FALSE, compared |-> FALSE,
            outcome |-> Raise("raise", "")]

NoRow == [model_error |-> "", format_error |-> "", batch_size |-> 0,
          n_policy_types |-> 0, max_n_requirements |-> 0,
          iteration |-> 0, chunk |-> 0, time |-> 0, total |-> 0, success |-> 0,
          fail |-> 0, wrong |-> 0, accuracy |-> 0, prompt_tokens |-> 0,
          completion_tokens |-> 0, total_cost |-> 0, diff |-> "",
          conflict_exist |-> FALSE, conflict_detect |-> FALSE]

Idle ==
    /\ exit_status = 0
    /\ created = {}
    /\ it = 0
    /\ bidx = 1
    /\ i = 0
    /\ flag_conflict = TRUE
    /\ samples = <<>>
    /\ heap = <<>>
    /\ chunk_samples = <<>>
    /\ result_row = NoRow
    /\ expected_spec = <<>>
    /\ human_language = <<>>
    /\ skip_compare = FALSE
    /\ new_result = EmptyDict
    /\ w = "none"
    /\ fileBuf = <<>>
    /\ fileDisk = <<>>
    /\ log = <<>>
    /\ trial = NoTrial
    /\ hist = <<>>
    /\ invocations = 0

Init ==
    /\ pc = "check"
    /\ policy_types \in (SUBSET PolicyTypeNames) \ {{}}
    /\ n_runs \in 0..MaxRuns
    /\ batch_sizes \in BatchLists
    /\ TotalChunks(n_runs, batch_sizes) <= MaxTrials
    /\ output = JStr("")
    /\ result = EmptyDict
    /\ Idle

----------------------------------------------------------------------------
(* Lines 50-87: pre-flight *)

CheckPolicyTypes ==
    /\ pc = "check"
    /\ IF PolicyCheckFails(policy_types)
       THEN pc' = "exited" /\ exit_status' = 1
       ELSE pc' = "makedirs" /\ exit_status' = exit_status
    /\ UNCHANGED <<policy_types, n_runs, batch_sizes, created, it, bidx, i, flag_conflict,
                   samples, heap, chunk_samples, result_row, expected_spec, human_language,
                   skip_compare, output, result, new_result, w, fileBuf, fileDisk, log,
                   trial, hist, invocations>>

Setup(at, artifact, next) ==
    /\ pc = at
    /\ created' = created \cup {artifact}
    /\ pc' = next
    /\ UNCHANGED <<policy_types, n_runs, batch_sizes, exit_status, it, bidx, i,
                   flag_conflict, samples, heap, chunk_samples, result_row, expected_spec,
                   human_language, skip_compare, output, result, new_result, w, fileBuf,
                   fileDisk, log, trial, hist, invocations>>

MakeDirs == Setup("makedirs", "results_dir", "logfile")

AddFileHandler == Setup("logfile", "log_file", "load")

LoadDataset == Setup("load", "dataset", "open")

OpenResultFile == Setup("open", "result_file", "iter")

----------------------------------------------------------------------------
(* Lines 89-233: the sweep *)

\* a flush that writes nothing out
noflush(disk, buf) == [disk |-> disk, buf |-> buf]

\* line 233
flush(disk, buf) == [disk |-> disk \o buf, buf |-> <<>>]

\* leaving the with block closes f, which writes out what is buffered
close(disk, buf) == disk \o buf

\* lines 90-92, and the end of the with block when the iterations are over
NextIteration ==
    /\ pc = "iter"
    /\ IF it < n_runs
       THEN /\ samples' = pick_sample(max_n_requirements)
            /\ heap' = [r \in 1..(2 * max_n_requirements) |-> 0]
            /\ bidx' = 1
            /\ pc' = "batch"
            /\ UNCHANGED <<fileBuf, fileDisk>>
       ELSE /\ fileDisk' = close(fileDisk, fileBuf)
            /\ fileBuf' = <<>>
            /\ pc' = "done"
            /\ UNCHANGED <<samples, heap, bidx>>
    /\ UNCHANGED <<policy_types, n_runs, batch_sizes, exit_status, created, it, i,
                   flag_conflict, chunk_samples, result_row, expected_spec, human_language,
                   skip_compare, output, result, new_result, w, log, trial, hist,
                   invocations>>

\* lines 94-101, and the end of the loop over the batch sizes
NextBatch ==
    /\ pc = "batch"
    /\ IF bidx <= Len(batch_sizes)
       THEN LET d == Duplicate(chunk_list(samples, batch_sizes[bidx] * n_policy_types), heap)
            IN /\ flag_conflict' = TRUE
               /\ chunk_samples' = d.chunks
               /\ heap' = d.heap
               /\ i' = 0
               /\ pc' = "chunk"
               /\ it' = it
       ELSE /\ it' = it + 1
            /\ pc' = "iter"
            /\ UNCHANGED <<flag_conflict, chunk_samples, heap, i>>
    /\ UNCHANGED <<policy_types, n_runs, batch_sizes, exit_status, created, bidx, samples,
                   result_row, expected_spec, human_language, skip_compare, output, result,
                   new_result, w, fileBuf, fileDisk, log, trial, hist, invocations>>

LogRecord(kind, has) == [kind |-> kind, has |-> has]

FileItem(kind, row) == [kind |-> kind, row |-> row]

\* lines 103-142, and the end of the loop over the chunks
BeginTrial ==
    /\ pc = "chunk"
    /\ IF i < Len(chunk_samples)
       THEN LET sample == chunk_samples[i + 1]
                h == IF flag_conflict THEN insert_conflict(sample, heap) ELSE heap
            IN /\ result_row' = InitialRow(batch_sizes[bidx], it, i, flag_conflict)
               /\ IF w = "none"
                  THEN w' = "writer" /\ fileBuf' = Append(fileBuf, FileItem("header", NoRow))
                  ELSE UNCHANGED <<w, fileBuf>>
               /\ heap' = h
               /\ trial' = [NoTrial EXCEPT !.it = it, !.bidx = bidx, !.i = i,
                                           !.injected = flag_conflict]
               /\ flag_conflict' = Toggle(flag_conflict)
               /\ expected_spec' = transform_sample_to_expected(sample, h)
               /\ human_language' = convert_to_human_language(sample, h)
               /\ log' = log \o << LogRecord("RUN", {}),
                                   LogRecord("Expected Result", {"expected_spec"}),
                                   LogRecord("Human Translation", {"human_language"}) >>
               /\ pc' = "invoke"
               /\ bidx' = bidx
       ELSE /\ bidx' = bidx + 1
            /\ pc' = "batch"
            /\ UNCHANGED <<result_row, w, fileBuf, heap, trial, flag_conflict,
                           expected_spec, human_language, log>>
    /\ UNCHANGED <<policy_types, n_runs, batch_sizes, exit_status, created, it, i, samples,
                   chunk_samples, skip_compare, output, result, new_result, fileDisk, hist,
                   invocations>>

\* lines 144-213: one call of step_1.process and what the try statement makes
\* of it, then the two log records that follow it; the prompt and chain of
\* lines 146-179 are rebuilt for every trial and carry nothing over
Invoke ==
    /\ pc = "invoke"
    /\ \E o \in Outcomes :
         LET c == Classify(o, result_row)
         IN /\ result_row' = c.row
            /\ result' = c.result
            /\ output' = c.output
            /\ skip_compare' = c.skip
            /\ trial' = [trial EXCEPT !.outcome = o]
            /\ log' = log \o OutputLogRecords(o)
                          \o << LogRecord("LLM Result", {"result"}), LogRecord("====", {}) >>
    /\ invocations' = invocations + 1
    /\ pc' = "compare"
    /\ UNCHANGED <<policy_types, n_runs, batch_sizes, exit_status, created, it, bidx, i,
                   flag_conflict, samples, heap, chunk_samples, expected_spec,
                   human_language, new_result, w, fileBuf, fileDisk, hist>>

\* line 215 with skip_compare set
SkipCompare ==
    /\ pc = "compare"
    /\ skip_compare
    /\ pc' = "write"
    /\ UNCHANGED <<policy_types, n_runs, batch_sizes, exit_status, created, it, bidx, i,
                   flag_conflict, samples, heap, chunk_samples, result_row, expected_spec,
                   human_language, skip_compare, output, result, new_result, w, fileBuf,
                   fileDisk, log, trial, hist, invocations>>

\* lines 218-226 raise outside the try statement: main() ends with the error
\* and the with block closes f
NormalizeAbort ==
    /\ pc = "compare"
    /\ ~skip_compare
    /\ NormalizeRaises(result)
    /\ pc' = "aborted"
    /\ exit_status' = 1
    /\ fileDisk' = close(fileDisk, fileBuf)
    /\ fileBuf' = <<>>
    /\ UNCHANGED <<policy_types, n_runs, batch_sizes, created, it, bidx, i,
                   flag_conflict, samples, heap, chunk_samples, result_row, expected_spec,
                   human_language, skip_compare, output, result, new_result, w,
                   log, trial, hist, invocations>>

\* lines 215-230
CompareOutput ==
    /\ pc = "compare"
    /\ ~skip_compare
    /\ ~NormalizeRaises(result)
    /\ LET n == Normalize(result)
       IN /\ result' = n.orig
          /\ new_result' = n.new
          /\ result_row' = compare_result(expected_spec, n.new, [result_row EXCEPT !.time = 1])
    /\ trial' = [trial EXCEPT !.compared = TRUE]
    /\ pc' = "write"
    /\ UNCHANGED <<policy_types, n_runs, batch_sizes, exit_status, created, it, bidx, i,
                   flag_conflict, samples, heap, chunk_samples, expected_spec,
                   human_language, skip_compare, output, w, fileBuf, fileDisk, log, hist,
                   invocations>>

\* line 232
WriteRow ==
    /\ pc = "write"
    /\ fileBuf' = Append(fileBuf, FileItem("row", result_row))
    /\ hist' = Append(hist, trial)
    /\ pc' = "flush"
    /\ UNCHANGED <<policy_types, n_runs, batch_sizes, exit_status, created, it, bidx, i,
                   flag_conflict, samples, heap, chunk_samples, result_row, expected_spec,
                   human_language, skip_compare, output, result, new_result, w, fileDisk,
                   log, trial, invocations>>

\* line 233, then the next chunk
Flush ==
    /\ pc = "flush"
    /\ fileDisk' = flush(fileDisk, fileBuf).disk
    /\ fileBuf' = flush(fileDisk, fileBuf).buf
    /\ i' = i + 1
    /\ pc' = "chunk"
    /\ UNCHANGED <<policy_types, n_runs, batch_sizes, exit_status, created, it, bidx,
                   flag_conflict, samples, heap, chunk_samples, result_row, expected_spec,
                   human_language, skip_compare, output, result, new_result, w, log, trial,
                   hist, invocations>>

Next ==
    \/ CheckPolicyTypes
    \/ MakeDirs
    \/ AddFileHandler
    \/ LoadDataset
    \/ OpenResultFile
    \/ NextIteration
    \/ NextBatch
    \/ BeginTrial
    \/ Invoke
    \/ SkipCompare
    \/ NormalizeAbort
    \/ CompareOutput
    \/ WriteRow
    \/ Flush

Spec == Init /\ [][Next]_vars

----------------------------------------------------------------------------
(* The key normalization of lines 218-226 on its own, over bounded results *)

Chars == {"N", " ", "\t"}

Keys == UNION { [1..n -> Chars] : n \in 1..MaxKeyLen }

\* dictionaries of at most MaxEntries distinct keys; the value of an entry is
\* its position
KeyLists ==
    UNION { {ks \in [1..n -> Keys] : \A a, b \in 1..n : a # b => ks[a] # ks[b]}
            : n \in 0..MaxEntries }

ItemsOf(ks) == [j \in 1..Len(ks) |-> <<ks[j], j>>]

\* a result with the dictionary of keys ks as its waypoint entry, as its
\* loadbalancing entry, as both, or with neither entry
Shaped(ks, shape) ==
    Payload("map",
            IF shape \in {"waypoint", "both"} THEN Mapping(ItemsOf(ks)) ELSE Absent,
            IF shape \in {"loadbalancing", "both"} THEN Mapping(ItemsOf(ks)) ELSE Absent,
            "exact")

NormInputs ==
    { Shaped(ks, shape) : ks \in KeyLists, shape \in {"waypoint", "loadbalancing", "both", "neither"} }

InitNorm ==
    /\ pc = "normalize"
    /\ result \in NormInputs
    /\ output = JArgs(<<result>>)
    /\ policy_types = {"reachability"}
    /\ n_runs = 0
    /\ batch_sizes = <<1>>
    /\ Idle

NormalizeOnly ==
    /\ pc = "normalize"
    /\ LET n == Normalize(result)
       IN /\ result' = n.orig
          /\ new_result' = n.new
    /\ pc' = "normalized"
    /\ UNCHANGED <<policy_types, n_runs, batch_sizes, exit_status, created, it, bidx, i,
                   flag_conflict, samples, heap, chunk_samples, result_row, expected_spec,
                   human_language, skip_compare, output, w, fileBuf, fileDisk, log, trial,
                   hist, invocations>>

NextNorm == NormalizeOnly

SpecNorm == InitNorm /\ [][NextNorm]_vars

----------------------------------------------------------------------------
(* What the properties read *)

\* everything written to the result file, flushed or not
FileAll == fileDisk \o fileBuf

IsRow(item) == item.kind = "row"

\* the rows of the result file, in file order; row k belongs to trial hist[k]
Rows ==
    LET items == SelectSeq(FileAll, IsRow)
    IN [k \in 1..Len(items) |-> items[k].row]

DiskRows == SelectSeq(fileDisk, IsRow)

Raised(o) == o.kind \in {"raise_json", "raise"}

CountersZero(row) ==
    row.total = 0 /\ row.success = 0 /\ row.fail = 0 /\ row.wrong = 0 /\ row.accuracy = 0

InTrial == pc \in {"invoke", "compare", "write", "flush"}

\* the trials completed before position (it, bidx, i) of the traversal
TrialsBefore(iter, b, chunk) ==
    iter * SumChunks(batch_sizes, Len(batch_sizes)) + SumChunks(batch_sizes, b - 1) + chunk

----------------------------------------------------------------------------
(* C1 *)

----------------------------------------------------------------------------
(* C2 *)

\* C2: no trial outcome aborts the sweep: every invocation is followed by
\* exactly one row, and at the end of the run there is one row per chunk.
C2_SweepNeverAborts ==
    LET rows == Rows IN
        /\ pc # "aborted"
        /\ (pc \in {"chunk", "batch", "iter", "done"}) => Len(rows) = invocations
        /\ (pc = "done") => Len(rows) = TotalChunks(n_runs, batch_sizes)

----------------------------------------------------------------------------
(* C3 *)

----------------------------------------------------------------------------
(* C4 *)

NaturalChunks == CeilDiv(Len(samples), batch_sizes[bidx] * n_policy_types)

\* C4: a batch size whose sample makes one chunk runs two chunks, the second
\* a deep copy of the first: equal content when copied, no record shared, and
\* without the conflict then injected into the first; every batch size has
\* at least two trials, the first rows with conflict_exist True then False.
C4_Duplication ==
    LET rows == Rows IN
        /\ (pc = "chunk" \/ InTrial) =>
              /\ Len(chunk_samples) >= 2
              /\ NaturalChunks = 1 =>
                    /\ Len(chunk_samples) = 2
                    /\ Len(chunk_samples[2]) = Len(chunk_samples[1])
                    /\ \A a \in DOMAIN chunk_samples[1], b \in DOMAIN chunk_samples[2] :
                          chunk_samples[1][a] # chunk_samples[2][b]
                    /\ (pc = "chunk" /\ i = 0) =>
                          Content(chunk_samples[2], heap) = Content(chunk_samples[1], heap)
                    /\ (InTrial \/ i > 0) =>
                          Content(chunk_samples[1], heap) =
                             [Content(chunk_samples[2], heap) EXCEPT ![1] = @ + 1]
        /\ (pc = "chunk" /\ i = Len(chunk_samples)) =>
              /\ i >= 2
              /\ Len(rows) >= i
              /\ rows[Len(rows) - i + 1].conflict_exist = TRUE
              /\ rows[Len(rows) - i + 2].conflict_exist = FALSE
        /\ (pc = "done" /\ batch_sizes = <<2>> /\ n_runs = 1
              /\ policy_types = {"reachability"}) =>
              /\ Len(rows) = 2
              /\ rows[1].conflict_exist = TRUE
              /\ rows[2].conflict_exist = FALSE

\* the run batch_size=[2], n_runs=1, reachability only, at its end
C4_Witness ==
    LET rows == Rows IN
        /\ pc = "done"
        /\ batch_sizes = <<2>> /\ n_runs = 1 /\ policy_types = {"reachability"}
        /\ Len(rows) = 2
        /\ hist[1].injected /\ ~hist[2].injected

----------------------------------------------------------------------------
(* C5 *)

\* C5: of a trial whose invocation returned: status false gives
\* conflict_detect = True and no comparison; status true without an 'args'
\* entry gives a recorded format_error and no comparison; comparison runs
\* only for status true with an 'args' entry.
C5_ReturnedOutcomeClassified ==
    LET rows == Rows IN
        \A k \in 1..Len(hist) :
            LET o == hist[k].outcome IN
            o.kind = "return" =>
                /\ ~o.status =>
                      rows[k].conflict_detect /\ CountersZero(rows[k]) /\ ~hist[k].compared
                /\ (o.status /\ ~o.output.hasArgs) =>
                      rows[k].format_error # "" /\ ~hist[k].compared
                /\ hist[k].compared => o.status /\ o.output.hasArgs

----------------------------------------------------------------------------
(* C6 *)

\* C6: the file holds the header once, first, then one row per completed
\* trial in traversal order; whenever a model invocation is pending or under
\* way, and at every other point but between a row's write and its flush, all
\* rows written are flushed, so at most the trial in flight is missing.
C6_HeaderOnceRowsFlushed ==
    LET rows == Rows IN
        /\ \A k \in 1..Len(FileAll) : (FileAll[k].kind = "header") <=> (k = 1)
        /\ (w = "writer") <=> (Len(FileAll) >= 1)
        /\ Len(rows) = Len(hist)
        /\ \A k \in 1..Len(hist) :
              /\ rows[k].iteration = hist[k].it
              /\ rows[k].batch_size = batch_sizes[hist[k].bidx]
              /\ rows[k].chunk = hist[k].i
              /\ TrialsBefore(hist[k].it, hist[k].bidx, hist[k].i) = k - 1
        /\ (pc = "chunk") => Len(rows) = TrialsBefore(it, bidx, i)
        /\ (pc # "flush") => Len(DiskRows) = Len(rows)
        /\ (pc \in {"invoke", "compare", "write"}) =>
              Len(DiskRows) = TrialsBefore(it, bidx, i)
        /\ Len(DiskRows) >= Len(rows) - 1

\* the third trial's invocation is about to start with the header and the two
\* earlier rows flushed
C6_Witness ==
    /\ pc = "invoke"
    /\ Len(hist) = 2
    /\ Len(fileDisk) = 3
    /\ fileBuf = <<>>

----------------------------------------------------------------------------
(* C7 *)

NormInput == output.args[1]

\* removal of all embedded whitespace
StripWhitespace(k) == SelectSeq(k, LAMBDA c : c \notin {" ", "\t"})

HasItem(e, k, v) == \E m \in 1..Len(e.items) : e.items[m] = <<k, v>>

\* the last item of e whose key becomes k once its spaces are removed
LastFor(e, k) ==
    LET js == {j \in 1..Len(e.items) : StripSpaces(e.items[j][1]) = k}
    IN CHOOSE j \in js : \A l \in js : l <= j

\* C7 as stated: every waypoint and loadbalancing key is replaced by the key
\* without its whitespace, with its value; the rest of the result is passed
\* on unchanged and the model's output is not modified.
C7_KeysWithoutWhitespace ==
    (pc = "normalized") =>
        /\ result = NormInput
        /\ new_result.t = NormInput.t /\ new_result.q = NormInput.q
        /\ \A j \in 1..Len(NormInput.wp.items) :
              HasItem(new_result.wp, StripWhitespace(NormInput.wp.items[j][1]),
                      NormInput.wp.items[j][2])
        /\ \A j \in 1..Len(NormInput.lb.items) :
              HasItem(new_result.lb, StripWhitespace(NormInput.lb.items[j][1]),
                      NormInput.lb.items[j][2])

EntryNormalized(old, new) ==
    /\ new.present = old.present
    /\ {new.items[m][1] : m \in 1..Len(new.items)} =
          {StripSpaces(old.items[j][1]) : j \in 1..Len(old.items)}
    /\ \A a, b \in 1..Len(new.items) : a # b => new.items[a][1] # new.items[b][1]
    /\ \A m \in 1..Len(new.items) :
          new.items[m][2] = old.items[LastFor(old, new.items[m][1])][2]

\* C7 amended: every waypoint and loadbalancing key is replaced by the key
\* without its space characters (other whitespace, such as a tab, stays);
\* keys that differ only in spaces become one entry, which carries the value
\* of the last of them; the rest is passed on unchanged and the model's
\* output is not modified.
C7_KeysWithoutSpaces ==
    (pc = "normalized") =>
        /\ result = NormInput
        /\ new_result.t = NormInput.t /\ new_result.q = NormInput.q
        /\ EntryNormalized(NormInput.wp, new_result.wp)
        /\ EntryNormalized(NormInput.lb, new_result.lb)

\* a waypoint entry keyed "N " was normalized to the key "N"
C7_Witness ==
    /\ pc = "normalized"
    /\ HasItem(NormInput.wp, <<"N", " ">>, 1)
    /\ HasItem(new_result.wp, <<"N">>, 1)
    /\ ~HasItem(new_result.wp, <<"N", " ">>, 1)

----------------------------------------------------------------------------
(* C8 *)

Logged(what) == Cardinality({j \in 1..Len(log) : what \in log[j].has})

\* C8: for every trial, whatever its end, the warning-level log has the
\* expected spec, the human translation, the raw model output and the diff.
C8_EveryTrialFullyLogged ==
    \A what \in {"expected_spec", "human_language", "output", "diff"} :
        Logged(what) >= Len(hist)

----------------------------------------------------------------------------
(* C9 *)

ProceedingTypes ==
    { {"reachability"}, {"reachability", "waypoint"},
      {"reachability", "waypoint", "loadbalancing"} }

\* C9: without reachability, or with loadbalancing and no waypoint, main
\* exits with status 1 before the results directory, the log file, the
\* dataset or the result file exists and before any trial; with every other
\* combination the check lets the run go on.
C9_PolicyTypesChecked ==
    /\ (policy_types \notin ProceedingTypes) =>
          /\ pc \in {"check", "exited"}
          /\ created = {} /\ invocations = 0 /\ FileAll = <<>> /\ log = <<>>
    /\ (pc = "exited") =>
          /\ exit_status = 1
          /\ "reachability" \notin policy_types
                \/ ("loadbalancing" \in policy_types /\ "waypoint" \notin policy_types)
    /\ (policy_types \in ProceedingTypes) => pc # "exited"
    /\ (pc = "check") => created = {} /\ exit_status = 0

\* loadbalancing requested with reachability and without waypoint: exited
C9_Witness ==
    /\ pc = "exited"
    /\ policy_types = {"reachability", "loadbalancing"}
    /\ exit_status = 1

----------------------------------------------------------------------------
(* C10 *)

Markers(row) ==
    (IF row.model_error # "" THEN 1 ELSE 0) + (IF row.format_error # "" THEN 1 ELSE 0)
    + (IF row.conflict_detect THEN 1 ELSE 0)

\* C10: every row has at most one of model_error, format_error and
\* conflict_detect set, and has none of them set only if its trial was
\* compared.
C10_RowClassifiable ==
    LET rows == Rows IN
        \A k \in 1..Len(hist) :
            /\ Markers(rows[k]) <= 1
            /\ Markers(rows[k]) = 0 => hist[k].compared

====
